---- MODULE Spec2Model ----
(***************************************************************************)
(* The movies resource of src/routes/movies.py with the request schemas of *)
(* src/schemas/movies.py.  The relational store is a record of tables; a   *)
(* request is handled in the steps at which the handler awaits the store,  *)
(* and other clients' steps may come between two steps of one request.     *)
(* Rows a session has flushed but not committed live in the session (tx)   *)
(* and reach the tables at commit only.  out is the response the last step *)
(* sent, if it sent one.                                                   *)
(***************************************************************************)
EXTENDS Integers, Sequences, FiniteSets, TLC

VARIABLES db, seq, session, out

vars == <<db, seq, session, out>>

----------------------------------------------------------------------------
(* Bounds of the model *)

\* ids the movies table may hand out
MaxMovieId == 2
\* pages a list request may ask for
MaxPage == 5
\* movies the store of a list specification may hold at the start
MaxListed == 4

(* Program constants *)

MaxFutureDays == 365
MinScore == 0
MaxScore == 100
MinPerPage == 1
MaxPerPage == 20
MinPageNo == 1

\* date.today(), in days; dates are day numbers
Today == 0

\* Python's None, and a present Optional value
None == <<>>
Some(v) == <<v>>

RefTables == {"countries", "genres", "actors", "languages"}
LinkTables == {"genres", "actors", "languages"}
MovieColumns == {"name", "date", "score", "overview", "status", "budget", "revenue"}

----------------------------------------------------------------------------
(* Helpers *)

Range(s) == {s[i] : i \in DOMAIN s}

HasDuplicates(s) == \E i, j \in DOMAIN s : i # j /\ s[i] = s[j]

\* ceil(a / b) for a >= 0, b > 0
Ceil(a, b) == (a + b - 1) \div b

Min(a, b) == IF a < b THEN a ELSE b

----------------------------------------------------------------------------
(* The store's schema *)

\* a store without the constraint on (name, date)
MovieKeyUnchecked(movieRows, name, date) == FALSE

\* the composite uniqueness constraint of movies on (name, date)
MovieKeyTaken(movieRows, name, date) ==
    \E m \in movieRows : m.name = name /\ m.date = date

\* the columns of movies that refuse NULL (overview is the optional one)
NotNullColumns == MovieColumns \ {"overview"}

\* the natural key of a reference table is unique
RefKeyTaken(rows, key) == \E r \in rows : r.key = key

\* an association table holds a (movie, reference) pair at most once
LinkKeyClash(ids) == HasDuplicates(ids)

EmptyTx == [t \in RefTables |-> {}]

Idle == [pc |-> "idle"]

NoResp == [op |-> "none", status |-> 0]

----------------------------------------------------------------------------
(* Schemas *)

\* MovieCreateSchema.validate_score
CreateScoreOk(v) == MinScore <= v /\ v <= MaxScore

\* MovieCreateSchema.validate_money
CreateMoneyOk(v) == ~(v < 0)

ValidCreate(data) ==
    /\ CreateScoreOk(data.score)
    /\ CreateMoneyOk(data.budget)
    /\ CreateMoneyOk(data.revenue)

\* a validator that checks the lower bound only
UpdateScoreNoUpper(v) == ~(v # None /\ v[1] < MinScore)

\* MovieUpdateSchema.validate_score, on an Optional value
UpdateScoreOk(v) == ~(v # None /\ ~(MinScore <= v[1] /\ v[1] <= MaxScore))

\* MovieUpdateSchema.validate_money, on an Optional value
UpdateMoneyOk(v) == ~(v # None /\ v[1] < 0)

\* the validators run on the fields the body holds
ValidUpdate(body) ==
    /\ "score" \in DOMAIN body => UpdateScoreOk(body["score"])
    /\ "budget" \in DOMAIN body => UpdateMoneyOk(body["budget"])
    /\ "revenue" \in DOMAIN body => UpdateMoneyOk(body["revenue"])

----------------------------------------------------------------------------
(* The session and the store *)

RefRow(id, key) == [id |-> id, key |-> key]

\* the id the store gives the next row of table t: a fresh one, the least
\* id no row of the table holds, rows flushed by open sessions included
NextRefId(store, t) ==
    LET used == {r.id : r \in store.ref[t]}
                \cup UNION {{r.id : r \in session[c].tx[t]} :
                               c \in {x \in DOMAIN session : session[x].pc = "resolve"}}
    IN  CHOOSE i \in 1..(Cardinality(used) + 1) :
            i \notin used /\ \A j \in 1..(i - 1) : j \in used

\* a select that drops the filter
LookupAny(rows, key) == rows

\* select(model).filter_by(**kwargs)
Lookup(rows, key) == {r \in rows : r.key = key}

\* a commit in place of the flush: the session's rows reach the tables
FlushCommits(store, tx, t, row) ==
    [store |-> [store EXCEPT !.ref = [u \in RefTables |->
                    @[u] \cup tx[u] \cup (IF u = t THEN {row} ELSE {})]],
     tx |-> EmptyTx]

\* db.add(obj); await db.flush(): the row is written inside the transaction
Flush(store, tx, t, row) ==
    [store |-> store, tx |-> [tx EXCEPT ![t] = @ \cup {row}]]

\* get_or_create: the row found, or a new one flushed; failed when
\* scalar_one_or_none() meets several rows
get_or_create(store, tx, t, key) ==
    LET found == Lookup(store.ref[t] \cup tx[t], key)
        row == RefRow(NextRefId(store, t), key)
        w == Flush(store, tx, t, row)
    IN  IF Cardinality(found) > 1
        THEN [failed |-> TRUE, created |-> FALSE, obj |-> row, store |-> store, tx |-> tx]
        ELSE IF found # {}
        THEN [failed |-> FALSE, created |-> FALSE, obj |-> CHOOSE r \in found : TRUE,
              store |-> store, tx |-> tx]
        ELSE [failed |-> FALSE, created |-> TRUE, obj |-> row,
              store |-> w.store, tx |-> w.tx]

\* the get_or_create calls of create_movie, in the order it makes them
Resolutions(data) ==
    <<<<"countries", data.country>>>>
    \o [i \in DOMAIN data.genres |-> <<"genres", data.genres[i]>>]
    \o [i \in DOMAIN data.actors |-> <<"actors", data.actors[i]>>]
    \o [i \in DOMAIN data.languages |-> <<"languages", data.languages[i]>>]

\* MovieModel(...): data.overview or ""
NewMovie(id, data, country) ==
    [id |-> id, name |-> data.name, date |-> data.date, score |-> data.score,
     overview |-> IF data.overview = None \/ data.overview = Some("")
                  THEN Some("") ELSE data.overview,
     status |-> data.status, budget |-> data.budget, revenue |-> data.revenue,
     country_id |-> country]

MovieIds(store) == {m.id : m \in store.movies}

MovieById(store, id) == CHOOSE m \in store.movies : m.id = id

\* the row with its relations loaded (selectinload of all four)
Hydrate(store, m) ==
    [id |-> m.id, name |-> m.name, date |-> m.date, score |-> m.score,
     overview |-> m.overview, status |-> m.status, budget |-> m.budget,
     revenue |-> m.revenue,
     country |-> {r \in store.ref["countries"] : r.id = m.country_id},
     genres |-> {r \in store.ref["genres"] : <<m.id, r.id>> \in store.link["genres"]},
     actors |-> {r \in store.ref["actors"] : <<m.id, r.id>> \in store.link["actors"]},
     languages |-> {r \in store.ref["languages"] :
                        <<m.id, r.id>> \in store.link["languages"]}]

\* the response the step sends to client c
Respond(c, r) == out' = [client |-> c] @@ r

\* the step sends no response
Silent == out' = NoResp

Rollback(c) == session' = [session EXCEPT ![c] = Idle]

----------------------------------------------------------------------------
(* POST /movies/ *)

\* the date rule of create_movie
TooFarAhead(d) == d > Today + MaxFutureDays

\* a create without the uniqueness query
ExistingNone(store, data) == {}

\* the query for a movie of the same name and date
ExistingMovie(store, data) ==
    {m \in store.movies : m.name = data.name /\ m.date = data.date}

\* schema validation, the date rule and the uniqueness query
CreateMovie(c, data) ==
    /\ session[c].pc = "idle"
    /\ seq < MaxMovieId
    /\ UNCHANGED <<db, seq>>
    /\ IF ~ValidCreate(data)
       THEN /\ Respond(c, [op |-> "create", status |-> 422, req |-> data])
            /\ UNCHANGED session
       ELSE IF TooFarAhead(data.date)
       THEN /\ Respond(c, [op |-> "create", status |-> 400, req |-> data])
            /\ UNCHANGED session
       ELSE IF Cardinality(ExistingMovie(db, data)) > 1
       THEN /\ Respond(c, [op |-> "create", status |-> 500, req |-> data])
            /\ UNCHANGED session
       ELSE IF ExistingMovie(db, data) # {}
       THEN /\ Respond(c, [op |-> "create", status |-> 409, req |-> data])
            /\ UNCHANGED session
       ELSE /\ session' = [session EXCEPT ![c] =
                   [pc |-> "resolve", data |-> data, todo |-> Resolutions(data),
                    got |-> [t \in RefTables |-> <<>>], tx |-> EmptyTx]]
            /\ Silent

\* one get_or_create call of create_movie
CreateResolve(c) ==
    /\ session[c].pc = "resolve"
    /\ session[c].todo # <<>>
    /\ LET s == session[c]
           t == Head(s.todo)[1]
           key == Head(s.todo)[2]
           r == get_or_create(db, s.tx, t, key)
       IN  IF r.failed
           THEN /\ Rollback(c)
                /\ Respond(c, [op |-> "create", status |-> 500])
                /\ UNCHANGED <<db, seq>>
           ELSE /\ session' = [session EXCEPT ![c] =
                       [s EXCEPT !.todo = Tail(@),
                                 !.got[t] = Append(@, r.obj.id),
                                 !.tx = r.tx]]
                /\ db' = r.store
                /\ Silent
                /\ UNCHANGED seq

\* what the commit of create_movie writes: the session's reference rows, the
\* movie and one association row per element of each list
CreateWrites(store, s, id) ==
    [movies |-> store.movies \cup {NewMovie(id, s.data, s.got["countries"][1])},
     ref |-> [t \in RefTables |-> store.ref[t] \cup s.tx[t]],
     link |-> [t \in LinkTables |->
                  store.link[t] \cup {<<id, s.got[t][i]>> : i \in DOMAIN s.got[t]}]]

\* the constraints the store checks on those writes
CreateViolates(store, s) ==
    \/ MovieKeyTaken(store.movies, s.data.name, s.data.date)
    \/ \E t \in RefTables : \E r \in s.tx[t] : RefKeyTaken(store.ref[t], r.key)
    \/ \E t \in LinkTables : LinkKeyClash(s.got[t])

\* db.add(movie); await db.commit()
CreateCommit(c) ==
    /\ session[c].pc = "resolve"
    /\ session[c].todo = <<>>
    /\ seq < MaxMovieId
    /\ LET s == session[c]
           id == seq + 1
       IN  IF CreateViolates(db, s)
           THEN /\ Rollback(c)
                /\ Respond(c, [op |-> "create", status |-> 500])
                /\ UNCHANGED <<db, seq>>
           ELSE /\ db' = CreateWrites(db, s, id)
                /\ seq' = id
                /\ session' = [session EXCEPT ![c] =
                       [pc |-> "refetch", data |-> s.data, id |-> id]]
                /\ Silent

\* the final select of create_movie; scalar_one() fails when the row is gone
CreateRefetch(c) ==
    /\ session[c].pc = "refetch"
    /\ LET s == session[c]
       IN  IF s.id \in MovieIds(db)
           THEN Respond(c, [op |-> "create", status |-> 201,
                            movie |-> Hydrate(db, MovieById(db, s.id))])
           ELSE Respond(c, [op |-> "create", status |-> 500])
    /\ Rollback(c)
    /\ UNCHANGED <<db, seq>>

----------------------------------------------------------------------------
(* GET /movies/{movie_id}/ *)

GetMovie(c, id) ==
    /\ session[c].pc = "idle"
    /\ IF id \in MovieIds(db)
       THEN Respond(c, [op |-> "get", status |-> 200, req |-> id,
                        movie |-> Hydrate(db, MovieById(db, id))])
       ELSE Respond(c, [op |-> "get", status |-> 404, req |-> id])
    /\ UNCHANGED <<db, seq, session>>

----------------------------------------------------------------------------
(* PATCH /movies/{movie_id}/ *)

\* a dump that excludes the None values instead of the unset fields
model_dump_exclude_none(body) ==
    [f \in {x \in DOMAIN body : body[x] # None} |-> body[f]]

\* data.model_dump(exclude_unset=True): the fields the body holds
model_dump(body) == body

\* whether setattr(movie, f, v) changes the loaded attribute; v is Optional
Differs(loaded, f, v) ==
    IF f = "overview" THEN v # loaded[f] ELSE v # Some(loaded[f])

\* the value a column takes from an Optional attribute value
ColumnValue(f, v) == IF f = "overview" THEN v ELSE v[1]

\* the row after UPDATE ... SET of the columns in changed
Updated(row, changed, data) ==
    [f \in DOMAIN row |-> IF f \in changed THEN ColumnValue(f, data[f]) ELSE row[f]]

\* schema validation and the select of the movie
UpdateMovie(c, id, body) ==
    /\ session[c].pc = "idle"
    /\ UNCHANGED <<db, seq>>
    /\ IF ~ValidUpdate(body)
       THEN /\ Respond(c, [op |-> "update", status |-> 422, req |-> id])
            /\ UNCHANGED session
       ELSE IF id \notin MovieIds(db)
       THEN /\ Respond(c, [op |-> "update", status |-> 404, req |-> id])
            /\ UNCHANGED session
       ELSE /\ session' = [session EXCEPT ![c] =
                   [pc |-> "update", id |-> id, body |-> body,
                    loaded |-> MovieById(db, id)]]
            /\ Silent

\* the setattr loop and await db.commit(): an UPDATE of the attributes whose
\* value changed, refused by the store when the row is gone or a constraint
\* is broken
UpdateCommit(c) ==
    /\ session[c].pc = "update"
    /\ LET s == session[c]
           data == model_dump(s.body)
           changed == {f \in DOMAIN data : Differs(s.loaded, f, data[f])}
           gone == s.id \notin MovieIds(db)
           nulls == \E f \in changed \cap NotNullColumns : data[f] = None
           row == MovieById(db, s.id)
           new == Updated(row, changed, data)
       IN  IF changed = {}
           THEN /\ Respond(c, [op |-> "update", status |-> 200])
                /\ UNCHANGED db
           ELSE IF gone \/ nulls
           THEN /\ Respond(c, [op |-> "update", status |-> 500])
                /\ UNCHANGED db
           ELSE IF MovieKeyTaken(db.movies \ {row}, new.name, new.date)
           THEN /\ Respond(c, [op |-> "update", status |-> 500])
                /\ UNCHANGED db
           ELSE /\ Respond(c, [op |-> "update", status |-> 200])
                /\ db' = [db EXCEPT !.movies = (@ \ {row}) \cup {new}]
    /\ Rollback(c)
    /\ UNCHANGED seq

----------------------------------------------------------------------------
(* DELETE /movies/{movie_id}/ *)

\* the select of the movie
DeleteMovie(c, id) ==
    /\ session[c].pc = "idle"
    /\ UNCHANGED <<db, seq>>
    /\ IF id \notin MovieIds(db)
       THEN /\ Respond(c, [op |-> "delete", status |-> 404, req |-> id])
            /\ UNCHANGED session
       ELSE /\ session' = [session EXCEPT ![c] = [pc |-> "delete", id |-> id]]
            /\ Silent

\* a delete that leaves the association rows
DeletedRowOnly(store, id) ==
    [store EXCEPT !.movies = {m \in @ : m.id # id}]

\* the tables after the movie and its association rows are deleted
Deleted(store, id) ==
    [store EXCEPT !.movies = {m \in @ : m.id # id},
                  !.link = [t \in LinkTables |-> {l \in @[t] : l[1] # id}]]

\* await db.delete(movie); await db.commit()
DeleteCommit(c) ==
    /\ session[c].pc = "delete"
    /\ db' = Deleted(db, session[c].id)
    /\ Respond(c, [op |-> "delete", status |-> 204])
    /\ Rollback(c)
    /\ UNCHANGED seq

----------------------------------------------------------------------------
(* GET /movies/ *)

RECURSIVE DescIds(_)
\* the ids of a set in descending order
DescIds(S) ==
    IF S = {} THEN <<>>
    ELSE LET top == CHOOSE x \in S : \A y \in S : y <= x
         IN  <<top>> \o DescIds(S \ {top})

\* .offset(offset).limit(per_page) of a row sequence
Page(rows, offset, limit) ==
    SubSeq(rows, offset + 1, Min(Len(rows), offset + limit))

\* an offset that is off by one page
OffsetNextPage(page, per_page) == page * per_page

\* offset = (page - 1) * per_page
Offset(page, per_page) == (page - 1) * per_page

\* MovieListItemSchema
ListItem(m) ==
    [id |-> m.id, name |-> m.name, date |-> m.date, score |-> m.score,
     overview |-> m.overview]

\* f"{BASE_URL}/?page={page}&per_page={per_page}"
PageLink(page, per_page) ==
    Some([path |-> "/theater/movies/", page |-> page, per_page |-> per_page])

\* Query(1, ge=1) and Query(10, ge=1, le=20)
ValidList(page, per_page) ==
    /\ page >= MinPageNo
    /\ per_page >= MinPerPage
    /\ per_page <= MaxPerPage

\* parameter validation, the count query and the page bounds
GetMovies(c, page, per_page) ==
    /\ session[c].pc = "idle"
    /\ UNCHANGED <<db, seq>>
    /\ LET total_items == Cardinality(db.movies)
           total_pages == Ceil(total_items, per_page)
           q == [page |-> page, per_page |-> per_page]
       IN  IF ~ValidList(page, per_page)
           THEN /\ Respond(c, [op |-> "list", status |-> 422, req |-> q])
                /\ UNCHANGED session
           ELSE IF total_items = 0
           THEN /\ Respond(c, [op |-> "list", status |-> 404, req |-> q])
                /\ UNCHANGED session
           ELSE IF page > total_pages
           THEN /\ Respond(c, [op |-> "list", status |-> 404, req |-> q])
                /\ UNCHANGED session
           ELSE /\ session' = [session EXCEPT ![c] =
                       [pc |-> "list", page |-> page, per_page |-> per_page,
                        total_items |-> total_items, total_pages |-> total_pages]]
                /\ Silent

\* the page query and the response
ListFetch(c) ==
    /\ session[c].pc = "list"
    /\ LET s == session[c]
           ids == Page(DescIds(MovieIds(db)), Offset(s.page, s.per_page), s.per_page)
       IN  Respond(c, [op |-> "list", status |-> 200,
                       req |-> [page |-> s.page, per_page |-> s.per_page],
                       movies |-> [i \in DOMAIN ids |-> ListItem(MovieById(db, ids[i]))],
                       total_pages |-> s.total_pages,
                       total_items |-> s.total_items,
                       prev_page |-> IF s.page > 1
                                     THEN PageLink(s.page - 1, s.per_page) ELSE None,
                       next_page |-> IF s.page < s.total_pages
                                     THEN PageLink(s.page + 1, s.per_page) ELSE None])
    /\ Rollback(c)
    /\ UNCHANGED <<db, seq>>

----------------------------------------------------------------------------
(* A storage failure while a request is being handled: the request fails and
   its session is rolled back *)

Abort(c) ==
    /\ session[c].pc # "idle"
    /\ Respond(c, [op |-> "failure", status |-> 500])
    /\ Rollback(c)
    /\ UNCHANGED <<db, seq>>

----------------------------------------------------------------------------
(* Specifications *)

EmptyStore ==
    [movies |-> {}, ref |-> [t \in RefTables |-> {}], link |-> [t \in LinkTables |-> {}]]

InitFor(clients) ==
    /\ db = EmptyStore
    /\ seq = 0
    /\ session = [c \in clients |-> Idle]
    /\ out = NoResp

\* the movie ids a request may name
Ids == 1..MaxMovieId

Clients == {"c1", "c2"}

\* a create request with the given choices and the other fields fixed
CreateData(name, date, score, overview, budget, revenue, country, lists) ==
    [name |-> name, date |-> date, score |-> score, overview |-> overview,
     status |-> "Released", budget |-> budget, revenue |-> revenue,
     country |-> country, genres |-> lists[1], actors |-> lists[2],
     languages |-> lists[3]]

NoLists == <<<<>>, <<>>, <<>>>>

(* Spec: two clients whose creates, renames and deletes of movies with the
   keys (A, 1) and (B, 1), all of genre g1, interleave *)

KeyCreates ==
    {CreateData(n, 1, 50, None, 0, 0, "US", <<<<"g1">>, <<>>, <<>>>>) : n \in {"A", "B"}}

KeyUpdates ==
    {[f \in {"name"} |-> Some(n)] : n \in {"A", "B"}}

Init == InitFor(Clients)

Next ==
    \E c \in Clients :
        \/ \E data \in KeyCreates : CreateMovie(c, data)
        \/ CreateResolve(c)
        \/ CreateCommit(c)
        \/ CreateRefetch(c)
        \/ \E id \in Ids, body \in KeyUpdates : UpdateMovie(c, id, body)
        \/ UpdateCommit(c)
        \/ \E id \in Ids : DeleteMovie(c, id)
        \/ DeleteCommit(c)
        \/ Abort(c)

Spec == Init /\ [][Next]_vars

(* SpecRel: one client whose creates resolve shared reference rows *)

RelLists ==
    {<<<<>>, <<>>, <<>>>>,
     <<<<"g1">>, <<"a1">>, <<"l1">>>>,
     <<<<"g1", "g1">>, <<>>, <<>>>>,
     <<<<"g1", "g2">>, <<"a1">>, <<>>>>,
     <<<<"g2", "g1">>, <<>>, <<"l1">>>>,
     <<<<>>, <<"a1", "a1">>, <<"l1", "l1">>>>}

RelCreates ==
    {CreateData(n, 1, 50, None, 0, 0, k, r) :
        n \in {"A", "B"}, k \in {"US", "UA"}, r \in RelLists}

InitRel == InitFor({"c1"})

NextRel ==
    \E c \in {"c1"} :
        \/ \E data \in RelCreates : CreateMovie(c, data)
        \/ CreateResolve(c)
        \/ CreateCommit(c)
        \/ CreateRefetch(c)
        \/ \E id \in Ids : GetMovie(c, id)
        \/ \E id \in Ids : DeleteMovie(c, id)
        \/ DeleteCommit(c)
        \/ Abort(c)

SpecRel == InitRel /\ [][NextRel]_vars

(* SpecSeq: one client; the scalar fields vary, in and out of range *)

SeqCreates ==
    {CreateData(n, d, sc, ov, b, r, "US", NoLists) :
        n \in {"A", "B"}, d \in {1, 400}, sc \in {-1, 0, 100, 101},
        ov \in {None}, b \in {-1, 0}, r \in {-1, 0}}

Body1(f, v) == [x \in {f} |-> v]

SeqUpdates ==
    {<<>>}
    \cup {Body1("name", v) : v \in {Some("A"), Some("B"), None}}
    \cup {Body1("date", v) : v \in {Some(1), Some(400)}}
    \cup {Body1("score", v) : v \in {Some(-1), Some(0), Some(100), Some(101), None}}
    \cup {Body1("overview", v) : v \in {Some(""), None}}
    \cup {Body1("budget", v) : v \in {Some(-1), Some(0), None}}
    \cup {Body1("revenue", v) : v \in {Some(-1), Some(0), None}}
    \cup {[score |-> Some(0), budget |-> Some(0)],
          [name |-> Some("B"), overview |-> None],
          [score |-> Some(100), revenue |-> Some(-1)]}

InitSeq == InitFor({"c1"})

NextSeq ==
    \E c \in {"c1"} :
        \/ \E data \in SeqCreates : CreateMovie(c, data)
        \/ CreateResolve(c)
        \/ CreateCommit(c)
        \/ CreateRefetch(c)
        \/ \E id \in Ids, body \in SeqUpdates : UpdateMovie(c, id, body)
        \/ UpdateCommit(c)
        \/ Abort(c)

SpecSeq == InitSeq /\ [][NextSeq]_vars

(* SpecList and SpecListConc: a store that holds some movies already, list
   requests and deletes; one client, or two whose steps interleave *)

\* the movie of id i of the listed store, as a create stored it
Listed(i) ==
    NewMovie(i, CreateData("A", i, 50, None, 0, 0, "US", NoLists), 1)

ListedStore(n) ==
    [EmptyStore EXCEPT !.movies = {Listed(i) : i \in 1..n},
                       !.ref["countries"] = IF n = 0 THEN {} ELSE {RefRow(1, "US")}]

InitListFor(clients) ==
    \E n \in 0..MaxListed :
        /\ db = ListedStore(n)
        /\ seq = n
        /\ session = [c \in clients |-> Idle]
        /\ out = NoResp

ListIds == 1..MaxListed

InitList == InitListFor({"c1"})

NextList ==
    \E c \in {"c1"} :
        \/ \E page \in 0..MaxPage, per_page \in 0..(MaxPerPage + 1) :
               GetMovies(c, page, per_page)
        \/ ListFetch(c)
        \/ \E id \in ListIds : DeleteMovie(c, id)
        \/ DeleteCommit(c)

SpecList == InitList /\ [][NextList]_vars

InitListConc == InitListFor(Clients)

NextListConc ==
    \E c \in Clients :
        \/ \E page \in 1..2, per_page \in {1, 2, MaxPerPage} :
               GetMovies(c, page, per_page)
        \/ ListFetch(c)
        \/ \E id \in ListIds : DeleteMovie(c, id)
        \/ DeleteCommit(c)

SpecListConc == InitListConc /\ [][NextListConc]_vars

----------------------------------------------------------------------------
(* The claims *)

\* the step is client c's commit of a create, not a storage failure
CommitStep(c) ==
    /\ session[c].pc = "resolve"
    /\ session[c].todo = <<>>
    /\ session'[c] # session[c]
    /\ out'.op # "failure"

Keys(rows) == {r.key : r \in rows}

\* C1: in every reachable state of interleaved creates, partial updates and
\* deletes, no two stored movies have the same (name, release date) pair
C1_UniqueNameDate ==
    \A m1, m2 \in db.movies :
        (m1.name = m2.name /\ m1.date = m2.date) => m1 = m2

\* two movies are stored and a rename of one to the other's key was refused
C1_Witness ==
    /\ Cardinality(db.movies) = 2
    /\ out.op = "update"
    /\ out.status = 500

\* every association row joins a stored movie and a stored reference row,
\* and every movie's country is stored
Integrity(store) ==
    /\ \A m \in store.movies : \E r \in store.ref["countries"] : r.id = m.country_id
    /\ \A t \in LinkTables : \A l \in store.link[t] :
           /\ l[1] \in MovieIds(store)
           /\ \E r \in store.ref[t] : r.id = l[2]

\* the step adds a reference row, an association row or a movie
Adds ==
    \/ \E t \in RefTables : ~(db'.ref[t] \subseteq db.ref[t])
    \/ \E t \in LinkTables : ~(db'.link[t] \subseteq db.link[t])
    \/ ~(MovieIds(db') \subseteq MovieIds(db))

\* the step is client c's successful commit: the movie, every association
\* row of its lists and every reference row of its session arrive together
WholeCreate(c) ==
    /\ CommitStep(c)
    /\ session'[c].pc = "refetch"
    /\ LET s == session[c]
           id == session'[c].id
       IN  /\ id \notin MovieIds(db)
           /\ id \in MovieIds(db')
           /\ \A t \in RefTables : s.tx[t] \subseteq db'.ref[t]
           /\ \A t \in LinkTables : \A i \in DOMAIN s.got[t] :
                  <<id, s.got[t][i]>> \in db'.link[t]

\* C5: create is atomic: rows are added to the tables only by the commit of
\* a create, which adds the movie, its association rows and its new reference
\* rows in one step; a create that ends any other way leaves the tables as
\* they were; the tables never hold a dangling association or country
C5_CreateAtomic ==
    [][/\ Adds => \E c \in DOMAIN session : WholeCreate(c)
       /\ \A c \in DOMAIN session :
              (/\ session[c].pc = "resolve"
               /\ session'[c] # session[c]
               /\ session'[c].pc \in {"resolve", "idle"}) => db' = db
       /\ Integrity(db')]_vars

\* a create has flushed a country row that no other request can see yet
C5_Witness ==
    \E c \in DOMAIN session :
        /\ session[c].pc = "resolve"
        /\ session[c].tx["countries"] # {}
        /\ db.ref["countries"] = {}

\* the natural key of every reference table is unique
UniqueKeys(store) ==
    \A t \in RefTables : \A r1, r2 \in store.ref[t] : r1.key = r2.key => r1 = r2

\* the step is one get_or_create of client c: it returns the visible row of
\* that key when there is one, and flushes a new row only when there is none
ResolveStepOk(c) ==
    LET s == session[c]
        t == Head(s.todo)[1]
        key == Head(s.todo)[2]
        seen == {r \in db.ref[t] \cup s.tx[t] : r.key = key}
        got == session'[c].got[t]
        id == got[Len(got)]
    IN  IF seen # {}
        THEN /\ session'[c].tx = s.tx
             /\ \E r \in seen : r.id = id
        ELSE /\ session'[c].tx[t] = s.tx[t] \cup {RefRow(id, key)}
             /\ \A r \in db.ref[t] \cup s.tx[t] : r.id # id

\* the movie client c committed links, for every name of its request, to the
\* only row of that key
LinksMatch(c) ==
    LET s == session[c]
        id == session'[c].id
        m == MovieById(db', id)
        only(t, key, rid) ==
            /\ RefRow(rid, key) \in db'.ref[t]
            /\ \A r \in db'.ref[t] : r.key = key => r.id = rid
    IN  /\ only("countries", s.data.country, m.country_id)
        /\ \A i \in DOMAIN s.data.genres :
               \E l \in db'.link["genres"] :
                   l[1] = id /\ only("genres", s.data.genres[i], l[2])
        /\ \A i \in DOMAIN s.data.actors :
               \E l \in db'.link["actors"] :
                   l[1] = id /\ only("actors", s.data.actors[i], l[2])
        /\ \A i \in DOMAIN s.data.languages :
               \E l \in db'.link["languages"] :
                   l[1] = id /\ only("languages", s.data.languages[i], l[2])

\* C3: after any sequence of creates each reference table holds at most one
\* row per natural key, every created movie links to the single row of each
\* key it named, and get_or_create returns the matching row when there is
\* one and creates a row only when there is none
C3_OneRowPerKey ==
    [][/\ UniqueKeys(db')
       /\ \A c \in DOMAIN session :
              /\ (session[c].pc = "resolve" /\ session[c].todo # <<>>
                  /\ session'[c].pc = "resolve") => ResolveStepOk(c)
              /\ (CommitStep(c) /\ session'[c].pc = "refetch") => LinksMatch(c)]_vars

\* two movies link to the same genre row
C3_Witness ==
    \E m1, m2 \in db.movies : \E r \in db.ref["genres"] :
        /\ m1.id # m2.id
        /\ <<m1.id, r.id>> \in db.link["genres"]
        /\ <<m2.id, r.id>> \in db.link["genres"]

\* C4: every valid create succeeds, and the genres, actors and languages of
\* the movie it returns are exactly the distinct names of its lists, its
\* country the row of its code; a repeated name yields one link and never
\* makes the create fail
C4_RelationsAreInputSets ==
    [][\A c \in DOMAIN session :
           /\ CommitStep(c) => session'[c].pc = "refetch"
           /\ (session[c].pc = "refetch" /\ out'.op = "create" /\ out'.status = 201)
                  => /\ Keys(out'.movie.country) = {session[c].data.country}
                     /\ Keys(out'.movie.genres) = Range(session[c].data.genres)
                     /\ Keys(out'.movie.actors) = Range(session[c].data.actors)
                     /\ Keys(out'.movie.languages) = Range(session[c].data.languages)]_vars

\* C7: a successful delete of movie m removes m and exactly m's association
\* rows and leaves every reference row and every other movie with its links;
\* an id once deleted is never stored again, and a get answers 404 exactly
\* for the ids that are not stored; a delete of an id that is not stored
\* answers 404 and changes nothing
C7_DeleteFrame ==
    [][/\ \A c \in DOMAIN session :
              /\ (session[c].pc = "delete" /\ out'.op = "delete" /\ out'.status = 204)
                     => LET id == session[c].id
                        IN  /\ db'.movies = {m \in db.movies : m.id # id}
                            /\ \A t \in LinkTables :
                                   db'.link[t] = {l \in db.link[t] : l[1] # id}
                            /\ db'.ref = db.ref
              /\ (session[c].pc = "idle" /\ session'[c].pc = "delete")
                     => session'[c].id \in MovieIds(db)
       /\ (out'.op = "delete" /\ out'.status = 404)
              => out'.req \notin MovieIds(db) /\ db' = db
       /\ out'.op = "get" => (out'.status = 404 <=> out'.req \notin MovieIds(db'))
       /\ out'.op = "get" => (out'.status = 200 <=> out'.req \in MovieIds(db'))
       /\ \A id \in 1..seq : id \notin MovieIds(db) => id \notin MovieIds(db')
       /\ Integrity(db')]_vars

\* a get of a deleted movie answers 404 while the genre it linked to is kept
C7_Witness ==
    /\ out.op = "get"
    /\ out.status = 404
    /\ out.req <= seq
    /\ db.ref["genres"] # {}

\* the step answers a create at its first step, request in hand
Rejected == out'.op = "create" /\ out'.status \in {400, 409, 422}

\* the request of the response is in range and its key is stored
ValidDuplicate(r) == ValidCreate(r) /\ MovieKeyTaken(db.movies, r.name, r.date)

C6_UpdateFrame ==
    [][\A c \in DOMAIN session :
           (session[c].pc = "update" /\ out'.op = "update" /\ out'.status = 200)
               => LET s == session[c]
                      old == MovieById(db, s.id)
                      new == MovieById(db', s.id)
                  IN  /\ s.id \in MovieIds(db')
                      /\ \A f \in MovieColumns \cap DOMAIN s.body :
                             IF f = "overview" THEN new[f] = s.body[f]
                                               ELSE <<new[f]>> = s.body[f]
                      /\ \A f \in MovieColumns \ DOMAIN s.body : new[f] = old[f]
                      /\ new.id = old.id
                      /\ new.country_id = old.country_id
                      /\ db'.movies \ {new} = db.movies \ {old}
                      /\ db'.link = db.link
                      /\ db'.ref = db.ref]_vars

\* an update that held a null overview succeeded and another movie is stored
C6_Witness ==
    /\ out.op = "update"
    /\ out.status = 200
    /\ Cardinality(db.movies) = 2
    /\ \E m \in db.movies : m.overview = None

PagesFor(T, s) == CHOOSE n \in 0..T : n * s >= T /\ \A k \in 0..(n - 1) : k * s < T

\* the number of stored movies listed before the movie of id x
Rank(store, x) == Cardinality({y \in MovieIds(store) : y > x})

\* a 200 list response r for page p of size s, against the store
PageOf(store, r, p, s) ==
    LET T == Cardinality(store.movies)
    IN  /\ r.total_items = T
        /\ r.total_pages = PagesFor(T, s)
        /\ Len(r.movies) = Min(s, T - (p - 1) * s)
        /\ \A i \in DOMAIN r.movies :
               /\ r.movies[i].id \in MovieIds(store)
               /\ Rank(store, r.movies[i].id) = (p - 1) * s + i - 1
               /\ \E m \in store.movies :
                      /\ m.id = r.movies[i].id
                      /\ m.name = r.movies[i].name
                      /\ m.date = r.movies[i].date
                      /\ m.score = r.movies[i].score
                      /\ m.overview = r.movies[i].overview
        /\ r.prev_page # None <=> p > 1
        /\ r.prev_page # None
               => r.prev_page[1] = [path |-> "/theater/movies/", page |-> p - 1,
                                    per_page |-> s]
        /\ r.next_page # None <=> p < PagesFor(T, s)
        /\ r.next_page # None
               => r.next_page[1] = [path |-> "/theater/movies/", page |-> p + 1,
                                    per_page |-> s]

\* C8: with T stored movies and no write between the two queries, a list
\* request for page p >= 1 of size s in 1..20 answers 404 when T = 0 or
\* p > ceil(T/s); otherwise it reports T and ceil(T/s), returns the
\* min(s, T - (p-1)*s) movies of ranks (p-1)*s+1.. in descending id order,
\* with a link to page p-1 exactly when p > 1 and to page p+1 exactly when
\* p < ceil(T/s), each link of the same size s
C8_PageContract ==
    [][LET T == Cardinality(db.movies)
       IN  /\ (out'.op = "list" /\ out'.status = 404)
                  => T = 0 \/ out'.req.page > PagesFor(T, out'.req.per_page)
           /\ (out'.op = "list" /\ out'.status = 422)
                  => ~(/\ out'.req.page >= 1
                       /\ out'.req.per_page \in 1..20)
           /\ \A c \in DOMAIN session :
                  (session[c].pc = "idle" /\ session'[c].pc = "list")
                      => /\ T > 0
                         /\ session'[c].page >= 1
                         /\ session'[c].per_page \in 1..20
                         /\ session'[c].page <= PagesFor(T, session'[c].per_page)
           /\ (out'.op = "list" /\ out'.status = 200)
                  => PageOf(db, out', out'.req.page, out'.req.per_page)]_vars

\* a last page that is not the first and holds fewer movies than its size
C8_Witness ==
    /\ out.op = "list"
    /\ out.status = 200
    /\ out.prev_page # None
    /\ out.next_page = None
    /\ Len(out.movies) < out.req.per_page
    /\ out.req.per_page > 1

\* C10: every 200 list response is consistent with the totals it reports,
\* whatever other clients commit between its two queries: its movies are
\* min(per_page, total_items - (page-1)*per_page) in number, at least one,
\* and it has a next_page only if page < total_pages
C10_ListSelfConsistent ==
    (out.op = "list" /\ out.status = 200)
        => /\ Len(out.movies) >= 1
           /\ Len(out.movies) =
                  Min(out.req.per_page,
                      out.total_items - (out.req.page - 1) * out.req.per_page)
           /\ out.next_page # None => out.req.page < out.total_pages

====
